---- MODULE Spec2Model ----
(***************************************************************************)
(* Model of the retrying HTTP health / smoke checkers:                     *)
(*   scripts/api_smoke_report.py  (multi-endpoint smoke runner)            *)
(*   scripts/health_check.py      (single-endpoint health check)           *)
(* One behaviour is one run of one of the two scripts.  The network is the *)
(* environment: every attempt draws one outcome of urllib's urlopen.       *)
(***************************************************************************)
EXTENDS Integers, Sequences, FiniteSets, TLC

\* ------------------------------------------------------------------ bounds
MaxRetries == 3
MaxBackoff == 2

\* ------------------------------------------------------- program constants
DEFAULT_EXPECTED == 200
INITIAL_DELAY == 1

\* Python's None for Optional[int] / Optional[float] / Optional[str] fields.
NoneInt == -1
NoneTok == "<None>"
Measured == 1

\* ------------------------------------------------------------ environment
\* urlopen returns a response object only for 2xx statuses; every other
\* status is raised as urllib.error.HTTPError by the library's
\* HTTPErrorProcessor.  Transport failures are URLError or other exceptions.
RespStatuses == {200, 204}
ErrStatuses == {404, 503}
BodyKinds == {"notjson", "json_without", "json_with"}

Failures ==
    [kind : {"HTTPError"}, code : ErrStatuses, body : {"json_without"}]
      \cup [kind : {"URLError", "Exception"}, code : {NoneInt}, body : {"notjson"}]

\* health_check.py inspects the body; api_smoke_report.py only previews it.
HealthOutcomes ==
    [kind : {"response"}, code : RespStatuses, body : BodyKinds] \cup Failures

\* An HTTPError whose body cannot be read to its end (the connection drops or
\* times out while exc.read() runs).
TruncatedErrors == [kind : {"HTTPError"}, code : ErrStatuses, body : {"truncated"}]

SmokeOutcomes ==
    [kind : {"response"}, code : RespStatuses, body : {"json_without"}]
      \cup Failures \cup TruncatedErrors

NoOutcome == [kind |-> "none", code |-> NoneInt, body |-> "notjson"]

\* ----------------------------------------------------------- pure helpers
RECURSIVE rstrip(_)
rstrip(s) ==
    IF s # <<>> /\ s[Len(s)] = "/" THEN rstrip(SubSeq(s, 1, Len(s) - 1)) ELSE s

RECURSIVE lstrip(_)
lstrip(s) ==
    IF s # <<>> /\ s[1] = "/" THEN lstrip(Tail(s)) ELSE s

\* build_url raises ValueError exactly when the base URL is empty.
BuildUrlRaises(base_url) == base_url = <<>>

\* Variant: the base is joined as given.
build_urlKeepSlash(base_url, path) == base_url \o <<"/">> \o lstrip(path)

build_url(base_url, path) == rstrip(base_url) \o <<"/">> \o lstrip(path)

\* Python truthiness of Optional[str]: None and "" are falsy.
Truthy(s) == s # NoneTok /\ s # ""

Endpoint(path, requires_auth, expected_status) ==
    [path |-> path, requires_auth |-> requires_auth,
     expected_status |-> expected_status]

Msg(kind, code) == [kind |-> kind, code |-> code]

\* ---------------------------------------------------- parse_paths_file
\* A file line is what comment stripping and split() leave of it: the path
\* (parts[0]) and the remaining tokens; a blank or comment line leaves nothing.
Line(path, toks) == [path |-> path, toks |-> toks]

BlankLine == Line(<<>>, <<>>)

NoFile == [given |-> FALSE, lines |-> <<>>]

File(lines) == [given |-> TRUE, lines |-> lines]

TokAuth(tok) == tok \in {"auth", "AUTH", "requires_auth"}

TokStatus(tok) == tok \in {"status=404", "status=200", "STATUS=204", "status=abc"}

\* int(token.split("=", 1)[1]); NoneInt stands for ValueError.
TokStatusValue(tok) ==
    CASE tok = "status=404" -> 404
      [] tok = "status=200" -> 200
      [] tok = "STATUS=204" -> 204
      [] OTHER -> NoneInt

RECURSIVE ApplyTokens(_, _)
\* The per-token loop of one line; "error" marks a raised ValueError.
ApplyTokens(ep, toks) ==
    IF toks = <<>> THEN [err |-> FALSE, ep |-> ep]
    ELSE LET tok == Head(toks) IN
         IF TokAuth(tok)
         THEN ApplyTokens([ep EXCEPT !.requires_auth = TRUE], Tail(toks))
         ELSE IF TokStatus(tok)
         THEN IF TokStatusValue(tok) = NoneInt
              THEN [err |-> TRUE, ep |-> ep]
              ELSE ApplyTokens([ep EXCEPT !.expected_status = TokStatusValue(tok)],
                               Tail(toks))
         ELSE [err |-> TRUE, ep |-> ep]

RECURSIVE parse_paths_file(_)
parse_paths_file(lines) ==
    IF lines = <<>> THEN [err |-> FALSE, eps |-> <<>>]
    ELSE LET line == Head(lines)
             rest == parse_paths_file(Tail(lines))
         IN  IF line = BlankLine THEN rest
             ELSE LET one == ApplyTokens(Endpoint(line.path, FALSE, DEFAULT_EXPECTED),
                                         line.toks)
                  IN  IF one.err THEN [err |-> TRUE, eps |-> <<>>]
                      ELSE IF rest.err THEN rest
                      ELSE [err |-> FALSE, eps |-> <<one.ep>> \o rest.eps]

PathEndpoints(paths) ==
    [i \in 1..Len(paths) |-> Endpoint(paths[i], FALSE, DEFAULT_EXPECTED)]

\* Variant: a parse error is swallowed and the remaining endpoints are used.
load_endpointsLenient(paths, paths_file) ==
    LET parsed == IF paths_file.given THEN parse_paths_file(paths_file.lines)
                  ELSE [err |-> FALSE, eps |-> <<>>]
        eps == parsed.eps \o PathEndpoints(paths)
    IN  IF eps = <<>> THEN [err |-> TRUE, eps |-> <<>>]
        ELSE [err |-> FALSE, eps |-> eps]

load_endpoints(paths, paths_file) ==
    LET parsed == IF paths_file.given THEN parse_paths_file(paths_file.lines)
                  ELSE [err |-> FALSE, eps |-> <<>>]
        eps == parsed.eps \o PathEndpoints(paths)
    IN  IF parsed.err THEN [err |-> TRUE, eps |-> <<>>]
        ELSE IF eps = <<>> THEN [err |-> TRUE, eps |-> <<>>]
        ELSE [err |-> FALSE, eps |-> eps]

\* main lines 244-246: apply the default expected status.
ApplyDefaultStatus(eps, expected_status) ==
    [i \in 1..Len(eps) |->
        IF eps[i].expected_status = 200 /\ expected_status # 200
        THEN [eps[i] EXCEPT !.expected_status = expected_status]
        ELSE eps[i]]

\* ------------------------------------------------------------- run_check
NoMsg == Msg("", NoneInt)

\* Variant: only an absent token (None) skips, an empty one does not.
ShouldSkipNoneOnly(ep, token) == ep.requires_auth /\ token = NoneTok

ShouldSkip(ep, token) == ep.requires_auth /\ ~Truthy(token)

\* Variant: a skipped endpoint is reported as passed.
SkippedResultPassed(ep, u) ==
    [endpoint |-> ep, url |-> u, status_code |-> NoneInt, ok |-> TRUE,
     skipped |-> TRUE, message |-> Msg("Authentication required", NoneInt),
     duration_ms |-> NoneInt]

SkippedResult(ep, u) ==
    [endpoint |-> ep, url |-> u, status_code |-> NoneInt, ok |-> FALSE,
     skipped |-> TRUE, message |-> Msg("Authentication required", NoneInt),
     duration_ms |-> NoneInt]

IsOk(code, expected_status) == code = expected_status

\* Lines 115-131: a response object came back from http_get.
ResponseResult(ep, u, code) ==
    LET ok == IsOk(code, ep.expected_status) IN
    [endpoint |-> ep, url |-> u, status_code |-> code, ok |-> ok,
     skipped |-> FALSE,
     message |-> IF ok THEN Msg("Status", code) ELSE Msg("Unexpected status", code),
     duration_ms |-> Measured]

\* Lines 132-142: the message each except clause records.
ErrorMessage(o) ==
    CASE o.kind = "HTTPError" -> Msg("HTTPError", o.code)
      [] o.kind = "URLError" -> Msg("URLError", NoneInt)
      [] OTHER -> Msg("Error", NoneInt)

\* Variant: the first recorded error is kept.
RecordErrorKeepFirst(last_err, new_err) == IF last_err = NoMsg THEN new_err ELSE last_err

RecordError(last_err, new_err) == new_err

\* Line 133: only the HTTPError clause assigns status_code.
StatusAfterError(code, o) == IF o.kind = "HTTPError" THEN o.code ELSE code

\* Line 134: exc.read() runs in the except HTTPError clause itself and raises
\* when the error body ends early.
ErrorBodyReadRaises(o) == o.kind = "HTTPError" /\ o.body = "truncated"

\* Line 111: while attempt < retries.
LoopContinues(n, retries) == n < retries

\* Variant: the sleep before the final attempt is dropped.
ShouldSleepShort(n, retries) == n < retries - 1

\* Line 144: if attempt < retries.
ShouldSleep(n, retries) == n < retries

\* Variant: additive instead of multiplicative backoff.
NextDelayAdditive(d, backoff) == d + backoff

NextDelay(d, backoff) == d * backoff

\* Lines 148-157.
ExhaustedResult(ep, u, code, last_err, dur) ==
    [endpoint |-> ep, url |-> u, status_code |-> code, ok |-> FALSE,
     skipped |-> FALSE,
     message |-> IF last_err = NoMsg THEN Msg("Unknown error", NoneInt) ELSE last_err,
     duration_ms |-> dur]

\* Variant: the header is added whenever a token argument was given.
AuthorizationHeaderIfGiven(token) == IF token # NoneTok THEN token ELSE NoneTok

\* http_get lines 71-73 / health_check main lines 53-55.
AuthorizationHeader(token) == IF Truthy(token) THEN token ELSE NoneTok

\* ------------------------------------------------------------ check_once
check_once(o, expected_status, json_contains) ==
    IF o.kind = "response"
    THEN IF expected_status # 0 /\ o.code # expected_status
         THEN [ok |-> FALSE, msg |-> Msg("unexpected status code", o.code)]
         ELSE IF Truthy(json_contains) /\ o.body = "notjson"
         THEN [ok |-> FALSE, msg |-> Msg("failed to parse json", NoneInt)]
         ELSE IF Truthy(json_contains) /\ o.body = "json_without"
         THEN [ok |-> FALSE, msg |-> Msg("expected JSON to contain", NoneInt)]
         ELSE [ok |-> TRUE, msg |-> Msg("ok", NoneInt)]
    ELSE [ok |-> FALSE, msg |-> ErrorMessage(o)]

\* ------------------------------------------------------- report writers
IsPassed(r) == r.ok
\* Variant: every result that is not ok counts as failed.
IsFailedNotOk(r) == ~r.ok

IsFailed(r) == ~r.ok /\ ~r.skipped
IsSkipped(r) == r.skipped

CountPassed(rs) == Cardinality({i \in 1..Len(rs) : IsPassed(rs[i])})
CountFailed(rs) == Cardinality({i \in 1..Len(rs) : IsFailed(rs[i])})
CountSkipped(rs) == Cardinality({i \in 1..Len(rs) : IsSkipped(rs[i])})

RowStatus(r) == IF r.ok THEN "PASS" ELSE IF r.skipped THEN "SKIPPED" ELSE "FAIL"

NoReport == [written |-> FALSE]

write_json(rs) ==
    [written |-> TRUE,
     rows |-> [i \in 1..Len(rs) |->
                 [path |-> rs[i].endpoint.path,
                  requires_auth |-> rs[i].endpoint.requires_auth,
                  expected_status |-> rs[i].endpoint.expected_status,
                  url |-> rs[i].url, status_code |-> rs[i].status_code,
                  ok |-> rs[i].ok, skipped |-> rs[i].skipped,
                  message |-> rs[i].message, duration_ms |-> rs[i].duration_ms]]]

write_markdown(rs) ==
    [written |-> TRUE,
     total |-> Len(rs),
     passed |-> CountPassed(rs),
     failed |-> CountFailed(rs),
     skipped |-> CountSkipped(rs),
     rows |-> [i \in 1..Len(rs) |->
                 [path |-> rs[i].endpoint.path, status |-> RowStatus(rs[i]),
                  code |-> rs[i].status_code, message |-> rs[i].message]]]

\* main lines 264-271: warnings go to stderr, the return value is constant.
MainWarnings(rs) ==
    (IF CountFailed(rs) > 0 THEN {"WARNING endpoints failed"} ELSE {})
      \cup (IF CountSkipped(rs) > 0 THEN {"NOTE endpoints skipped"} ELSE {})

MainReturn(rs) == 0

\* main line 251.
AppendResult(rs, r) == Append(rs, r)

\* Variant: range(1, retries).
HealthLoopStopsEarly(n, retries) == n < retries - 1

\* health_check main line 58: for attempt in range(1, retries + 1), with n
\* the number of iterations already run.
HealthLoopContinues(n, retries) == n < retries

\* health_check main line 64.
HealthShouldSleep(n, retries) == n < retries

\* health_check main line 66.
NextWait(w, backoff) == w * backoff

\* ------------------------------------------------------------ input sets
PathA == <<"/", "a">>
PathP == <<"p">>
BaseUrls == {<<>>, <<"x", "/">>}
Tokens == {NoneTok, "", "tok"}
RetriesValues == (-1)..MaxRetries
\* Multipliers are whole and not negative here; time.sleep rejects a negative
\* delay and float rounding is not modelled.
BackoffValues == 0..MaxBackoff
ExpectedArgs == {200, 404}
HealthExpected == {0, 200, 404}
JsonContains == {NoneTok, "", "beacon"}
ReportPaths == {"None", "writable", "unwritable"}

FileLines ==
    {BlankLine, Line(PathA, <<>>), Line(PathA, <<"auth">>),
     Line(PathA, <<"status=404">>), Line(PathA, <<"status=200">>),
     Line(PathA, <<"bogus">>)}

PathsFiles ==
    {NoFile} \cup {File(<<l>>) : l \in FileLines}
      \cup {File(<<l, Line(PathA, <<"status=abc">>)>>) : l \in FileLines}

PathsArgs == {<<>>, <<PathP>>}

SmokeArgs ==
    [base_url : BaseUrls, paths : PathsArgs, paths_file : PathsFiles,
     bearer_token : Tokens, retries : RetriesValues, backoff : BackoffValues,
     expected_status : ExpectedArgs]

HealthArgs ==
    [expected_status : HealthExpected, retries : RetriesValues,
     backoff : BackoffValues, json_contains : JsonContains,
     bearer_token : Tokens]

\* ------------------------------------------------------------------ state
VARIABLES
    script,       \* which script this run is: "smoke" or "health"
    args,         \* the parsed command line
    pc,           \* position in main / run_check
    endpoints,    \* main: the loaded endpoint list
    results,      \* main: results
    idx,          \* main: index of the endpoint being checked
    url,          \* run_check: url
    attempt,      \* run_check / health main: attempt
    delay,        \* run_check: delay
    wait,         \* health main: wait
    last_error,   \* run_check: last_error
    status_code,  \* run_check: status_code
    duration_ms,  \* run_check: duration_ms
    res,          \* the value run_check returned
    hc,           \* health main: (ok, msg) of the last check_once
    calls,        \* history: urlopen calls of the current check
    sleeps,       \* history: time.sleep arguments of the current check
    lastOutcome,  \* history: outcome of the latest urlopen call
    matched,      \* history: some attempt of the current check got the expected status
    passed,       \* history: some check_once returned ok
    totalCalls,   \* history: urlopen calls of the whole run
    reqAuth,      \* history: Authorization header values sent
    exitCode,     \* process exit status, NoneInt while running
    exitVia,      \* "return", "sys.exit" or "uncaught"
    stderr,       \* kinds of message written to standard error
    jsonReport,   \* the JSON report file
    mdReport,     \* the Markdown report file
    ci            \* the CI workflow's failure handlers and the issue tracker

mainVars == <<script, args, endpoints, results, idx>>
checkVars == <<url, attempt, delay, last_error, status_code, duration_ms, res>>
healthVars == <<wait, hc, passed>>
histVars == <<calls, sleeps, lastOutcome, matched, totalCalls, reqAuth>>
exitVars == <<exitCode, exitVia, stderr, jsonReport, mdReport>>
vars == <<pc, mainVars, checkVars, healthVars, histVars, exitVars, ci>>

NoResult == [skipped |-> FALSE, ok |-> FALSE, none |-> TRUE]

\* The scripts run outside the workflow's failure handling.
NoWorkflow == [pc |-> <<>>, issues |-> <<>>, comments |-> <<>>]

Init ==
    /\ script \in {"smoke", "health"}
    /\ args \in IF script = "smoke" THEN SmokeArgs ELSE HealthArgs
    /\ pc = IF script = "smoke" THEN "start" ELSE "hc_loop"
    /\ endpoints = <<>>
    /\ results = <<>>
    /\ idx = 0
    /\ url = <<>>
    /\ attempt = 0
    /\ delay = INITIAL_DELAY
    /\ wait = INITIAL_DELAY
    /\ last_error = NoMsg
    /\ status_code = NoneInt
    /\ duration_ms = NoneInt
    /\ res = NoResult
    /\ hc = [ok |-> FALSE, msg |-> NoMsg]
    /\ calls = 0
    /\ sleeps = <<>>
    /\ lastOutcome = NoOutcome
    /\ matched = FALSE
    /\ passed = FALSE
    /\ totalCalls = 0
    /\ reqAuth = {}
    /\ exitCode = NoneInt
    /\ exitVia = "running"
    /\ stderr = {}
    /\ jsonReport = NoReport
    /\ mdReport = NoReport
    /\ ci = NoWorkflow

\* ------------------------------------------- api_smoke_report.py: main
\* Lines 237-246: load the endpoints (configuration errors return 1), then
\* apply the default expected status.
MainLoad ==
    /\ UNCHANGED ci
    /\ script = "smoke" /\ pc = "start"
    /\ LET ld == load_endpoints(args.paths, args.paths_file) IN
       IF ld.err
       THEN /\ stderr' = stderr \cup {"configuration error"}
            /\ exitCode' = 1
            /\ exitVia' = "return"
            /\ pc' = "done"
            /\ UNCHANGED <<endpoints, idx>>
       ELSE /\ endpoints' = ApplyDefaultStatus(ld.eps, args.expected_status)
            /\ idx' = 1
            /\ pc' = "call"
            /\ UNCHANGED <<stderr, exitCode, exitVia>>
    /\ UNCHANGED <<script, args, results, checkVars, healthVars, histVars,
                   jsonReport, mdReport>>

\* Lines 93-109: entry of run_check for endpoints[idx].  build_url runs
\* first; its ValueError is caught neither by run_check nor by main.
RunCheckEnter ==
    /\ UNCHANGED ci
    /\ script = "smoke" /\ pc = "call"
    /\ calls' = 0
    /\ sleeps' = <<>>
    /\ lastOutcome' = NoOutcome
    /\ matched' = FALSE
    /\ LET ep == endpoints[idx] IN
       IF BuildUrlRaises(args.base_url)
       THEN /\ exitCode' = 1
            /\ exitVia' = "uncaught"
            /\ stderr' = stderr \cup {"Traceback ValueError"}
            /\ pc' = "done"
            /\ UNCHANGED checkVars
       ELSE /\ url' = build_url(args.base_url, ep.path)
            /\ attempt' = 0
            /\ delay' = INITIAL_DELAY
            /\ last_error' = NoMsg
            /\ status_code' = NoneInt
            /\ duration_ms' = NoneInt
            /\ IF ShouldSkip(ep, args.bearer_token)
               THEN res' = SkippedResult(ep, url') /\ pc' = "returned"
               ELSE res' = NoResult /\ pc' = "loop"
            /\ UNCHANGED <<exitCode, exitVia, stderr>>
    /\ UNCHANGED <<mainVars, healthVars, totalCalls, reqAuth, jsonReport, mdReport>>

\* Lines 111-146: one iteration of the retry loop.
Attempt ==
    /\ UNCHANGED ci
    /\ script = "smoke" /\ pc = "loop"
    /\ LoopContinues(attempt, args.retries)
    /\ \E o \in SmokeOutcomes :
         LET ep == endpoints[idx] IN
         /\ attempt' = attempt + 1
         /\ calls' = calls + 1
         /\ totalCalls' = totalCalls + 1
         /\ reqAuth' = reqAuth \cup {AuthorizationHeader(args.bearer_token)}
         /\ lastOutcome' = o
         /\ matched' = (matched \/ o.code = ep.expected_status)
         /\ IF o.kind = "response"
            THEN /\ status_code' = o.code
                 /\ duration_ms' = Measured
                 /\ res' = ResponseResult(ep, url, o.code)
                 /\ pc' = "returned"
                 /\ UNCHANGED <<last_error, delay, sleeps, exitVars>>
            ELSE IF ErrorBodyReadRaises(o)
            THEN \* Line 133 has run; the exception of line 134 is raised
                 \* inside the handler, so no later except clause catches it
                 \* and neither run_check nor main does: the interpreter
                 \* prints the traceback and exits 1.
                 /\ status_code' = o.code
                 /\ exitCode' = 1
                 /\ exitVia' = "uncaught"
                 /\ stderr' = stderr \cup {"Traceback IncompleteRead"}
                 /\ pc' = "done"
                 /\ UNCHANGED <<duration_ms, last_error, delay, sleeps, res,
                                jsonReport, mdReport>>
            ELSE /\ status_code' = StatusAfterError(status_code, o)
                 /\ duration_ms' = Measured
                 /\ last_error' = RecordError(last_error, ErrorMessage(o))
                 /\ IF ShouldSleep(attempt', args.retries)
                    THEN /\ sleeps' = Append(sleeps, delay)
                         /\ delay' = NextDelay(delay, args.backoff)
                    ELSE UNCHANGED <<sleeps, delay>>
                 /\ UNCHANGED <<res, pc, exitVars>>
    /\ UNCHANGED <<mainVars, url, healthVars>>

\* Lines 148-157: the loop ended without a response.
LoopExit ==
    /\ UNCHANGED ci
    /\ script = "smoke" /\ pc = "loop"
    /\ ~LoopContinues(attempt, args.retries)
    /\ res' = ExhaustedResult(endpoints[idx], url, status_code, last_error, duration_ms)
    /\ pc' = "returned"
    /\ UNCHANGED <<mainVars, url, attempt, delay, last_error, status_code,
                   duration_ms, healthVars, histVars, exitVars>>

\* Lines 249-251: main takes the result and moves to the next endpoint.
MainAppend ==
    /\ UNCHANGED ci
    /\ script = "smoke" /\ pc = "returned"
    /\ results' = AppendResult(results, res)
    /\ IF idx < Len(endpoints)
       THEN idx' = idx + 1 /\ pc' = "call"
       ELSE idx' = idx /\ pc' = "reports"
    /\ UNCHANGED <<script, args, endpoints, checkVars, healthVars, histVars, exitVars>>

\* Lines 253-271: write the reports that were asked for (a failed write is
\* logged and swallowed), print the warnings, return.
MainFinish ==
    /\ UNCHANGED ci
    /\ script = "smoke" /\ pc = "reports"
    /\ \E report_json \in ReportPaths, report_md \in ReportPaths :
         /\ jsonReport' = IF report_json = "writable" THEN write_json(results)
                          ELSE NoReport
         /\ mdReport' = IF report_md = "writable" THEN write_markdown(results)
                        ELSE NoReport
         /\ stderr' = stderr \cup MainWarnings(results)
              \cup (IF report_json = "unwritable"
                    THEN {"failed to write JSON report"} ELSE {})
              \cup (IF report_md = "unwritable"
                    THEN {"failed to write Markdown report"} ELSE {})
    /\ exitCode' = MainReturn(results)
    /\ exitVia' = "return"
    /\ pc' = "done"
    /\ UNCHANGED <<mainVars, checkVars, healthVars, histVars>>

\* ------------------------------------------------ health_check.py: main
\* Lines 58-66: one iteration of the for loop.
HealthAttempt ==
    /\ UNCHANGED ci
    /\ script = "health" /\ pc = "hc_loop"
    /\ HealthLoopContinues(attempt, args.retries)
    /\ \E o \in HealthOutcomes :
         LET r == check_once(o, args.expected_status, args.json_contains) IN
         /\ attempt' = attempt + 1
         /\ calls' = calls + 1
         /\ totalCalls' = totalCalls + 1
         /\ reqAuth' = reqAuth \cup {AuthorizationHeader(args.bearer_token)}
         /\ lastOutcome' = o
         /\ matched' = (matched \/ o.code = args.expected_status)
         /\ hc' = r
         /\ passed' = (passed \/ r.ok)
         /\ IF r.ok
            THEN /\ exitCode' = 0
                 /\ exitVia' = "sys.exit"
                 /\ pc' = "done"
                 /\ UNCHANGED <<sleeps, wait>>
            ELSE /\ IF HealthShouldSleep(attempt', args.retries)
                    THEN /\ sleeps' = Append(sleeps, wait)
                         /\ wait' = NextWait(wait, args.backoff)
                    ELSE UNCHANGED <<sleeps, wait>>
                 /\ UNCHANGED <<exitCode, exitVia, pc>>
    /\ UNCHANGED <<mainVars, url, delay, last_error, status_code, duration_ms,
                   res, stderr, jsonReport, mdReport>>

\* Lines 68-69: the loop ran out.
HealthFail ==
    /\ UNCHANGED ci
    /\ script = "health" /\ pc = "hc_loop"
    /\ ~HealthLoopContinues(attempt, args.retries)
    /\ stderr' = stderr \cup {"Health check failed after retries"}
    /\ exitCode' = 2
    /\ exitVia' = "sys.exit"
    /\ pc' = "done"
    /\ UNCHANGED <<mainVars, checkVars, healthVars, histVars, jsonReport, mdReport>>

Next ==
    \/ MainLoad
    \/ RunCheckEnter
    \/ Attempt
    \/ LoopExit
    \/ MainAppend
    \/ MainFinish
    \/ HealthAttempt
    \/ HealthFail

Spec == Init /\ [][Next]_vars

\* =============================================================== claims
InCheck == script = "smoke" /\ pc \in {"loop", "returned"}
Returned == script = "smoke" /\ pc = "returned"
HealthDone == script = "health" /\ pc = "done"
SmokeDone == script = "smoke" /\ pc = "done"

RECURSIVE Pow(_, _)
Pow(b, n) == IF n = 0 THEN 1 ELSE b * Pow(b, n - 1)

\* C1: whenever the status the server answered on the latest attempt equals
\* the expected status (2xx or not), the check has stopped at that attempt
\* and reported success: run_check returned ok = TRUE, health_check (run
\* without a --json-contains requirement) exited 0.
C1_ExpectedStatusSucceeds ==
    /\ (InCheck /\ calls >= 1 /\ lastOutcome.code = endpoints[idx].expected_status)
         => (pc = "returned" /\ res.ok /\ calls = attempt)
    /\ (script = "health" /\ calls >= 1 /\ args.json_contains \in {NoneTok, ""}
          /\ lastOutcome.code = args.expected_status)
         => (pc = "done" /\ exitCode = 0)

\* C2: a check that is not skipped, runs with retries >= 1 and never saw the
\* expected status returns ok = FALSE only after exactly retries calls.
C2_MismatchExhaustsRetries ==
    (Returned /\ ~res.skipped /\ args.retries >= 1 /\ ~matched)
      => (~res.ok /\ calls = args.retries)

\* C3: for an endpoint that requires auth, with the token absent or empty,
\* run_check returns skipped = TRUE with no network call and no sleep.
C3_AuthWithoutTokenSkips ==
    (InCheck /\ endpoints[idx].requires_auth /\ args.bearer_token \in {NoneTok, ""})
      => /\ pc = "returned"
         /\ res.skipped
         /\ calls = 0
         /\ sleeps = <<>>
         /\ attempt = 0

C3_Witness ==
    /\ Returned /\ res.skipped
    /\ args.bearer_token = "" /\ args.retries = MaxRetries /\ args.backoff = MaxBackoff
    /\ idx = 1 /\ Len(endpoints) = 2

\* C4: a success on attempt k ends the check after exactly k calls and k-1
\* sleeps (one call and no sleep when the first attempt succeeds), in the
\* smoke runner and in the health check alike.
C4_SuccessStopsRetrying ==
    /\ (Returned /\ res.ok)
         => (calls >= 1 /\ calls = attempt /\ Len(sleeps) = calls - 1)
    /\ (HealthDone /\ exitCode = 0)
         => (calls >= 1 /\ calls = attempt /\ Len(sleeps) = calls - 1)

C4_Witness ==
    /\ Returned /\ res.ok /\ calls = 3 /\ Len(sleeps) = 2

\* C5: the k-th sleep of a check lasts INITIAL_DELAY * backoff^(k-1); a sleep
\* follows every failed attempt that leaves attempts, none follows the last
\* one, so retries failed attempts take retries - 1 sleeps.
C5_BackoffSchedule ==
    /\ \A k \in 1..Len(sleeps) : sleeps[k] = INITIAL_DELAY * Pow(args.backoff, k - 1)
    /\ (script = "smoke" /\ pc = "loop" /\ attempt >= 1)
         => Len(sleeps) = (IF attempt < args.retries THEN attempt ELSE args.retries - 1)
    /\ (Returned /\ ~res.skipped /\ args.retries >= 1 /\ calls = args.retries)
         => Len(sleeps) = args.retries - 1
    /\ (script = "health" /\ pc = "hc_loop" /\ attempt >= 1)
         => Len(sleeps) = (IF attempt < args.retries THEN attempt ELSE args.retries - 1)
    /\ (HealthDone /\ exitCode = 2 /\ args.retries >= 1)
         => (calls = args.retries /\ Len(sleeps) = args.retries - 1)

C5_Witness ==
    /\ Returned /\ ~res.ok /\ args.retries = 3 /\ calls = 3
    /\ args.backoff = 2 /\ sleeps = <<1, 2>>
    /\ lastOutcome.code = 503

\* C6: a check that used up its retries >= 1 attempts returns ok = FALSE,
\* skipped = FALSE and the message of the last attempt; a status S received
\* on that attempt is in the message.
C6_LastFailureReported ==
    (Returned /\ ~res.skipped /\ ~res.ok /\ args.retries >= 1 /\ calls = args.retries)
      => /\ res.message.kind =
              (CASE lastOutcome.kind = "HTTPError" -> "HTTPError"
                 [] lastOutcome.kind = "URLError" -> "URLError"
                 [] lastOutcome.kind = "Exception" -> "Error"
                 [] lastOutcome.kind = "response" -> "Unexpected status")
         /\ res.message.code = lastOutcome.code

C6_Witness ==
    /\ Returned /\ ~res.ok /\ calls = 3 /\ args.retries = 3
    /\ lastOutcome.kind = "URLError" /\ res.message.kind = "URLError"
    /\ status_code = 404

\* C7: no outcome of an endpoint's check aborts the run: past main's loop
\* results holds one result per endpoint in input order, and the only abort
\* there is comes from an empty base URL, before any network call.
C7_OneResultPerEndpoint ==
    /\ (script = "smoke" /\ pc \in {"call", "loop", "returned"})
         => (Len(results) = idx - 1
             /\ \A i \in 1..Len(results) : results[i].endpoint = endpoints[i])
    /\ (script = "smoke" /\ (pc = "reports" \/ (pc = "done" /\ exitVia = "return"
                                                  /\ endpoints # <<>>)))
         => (Len(results) = Len(endpoints)
             /\ \A i \in 1..Len(results) : results[i].endpoint = endpoints[i])
    /\ (script = "smoke" /\ exitVia = "uncaught")
         => (args.base_url = <<>> /\ totalCalls = 0)

\* C8: with an empty base URL the smoke runner ends as a configuration
\* error (exit code 1 returned by main with the "configuration error" message)
\* before any endpoint is processed: no call, no result, no report.
C8_EmptyBaseUrlIsConfigError ==
    (SmokeDone /\ args.base_url = <<>>)
      => /\ exitCode = 1
         /\ exitVia = "return"
         /\ "configuration error" \in stderr
         /\ totalCalls = 0
         /\ results = <<>>
         /\ jsonReport = NoReport /\ mdReport = NoReport

\* C9: health_check exits 0 exactly when an attempt passed, at that attempt
\* and within retries attempts, and exits 2 exactly when no attempt passed,
\* only once no attempt remains.
C9_HealthExitCode ==
    /\ (script = "health" /\ passed) => (pc = "done" /\ exitCode = 0)
    /\ HealthDone =>
         /\ exitCode \in {0, 2}
         /\ (exitCode = 0) <=> passed
         /\ (exitCode = 0) => (hc.ok /\ calls >= 1 /\ calls <= args.retries
                               /\ attempt = calls)
         /\ (exitCode = 2) => (~hc.ok /\ attempt >= args.retries
                               /\ calls = (IF args.retries > 0 THEN args.retries ELSE 0))

C9_Witness ==
    /\ HealthDone /\ exitCode = 0 /\ calls = 3 /\ args.retries = 3

\* C10: once the endpoints are loaded the smoke runner exits 0 whatever the
\* results and even when a report cannot be written; exit code 1 occurs only
\* for configuration errors (no valid endpoint list, empty base URL).
C10_SmokeExitCode ==
    SmokeDone =>
      /\ exitCode \in {0, 1}
      /\ (endpoints # <<>> /\ args.base_url # <<>>) => exitCode = 0
      /\ (exitCode = 1) => (endpoints = <<>> \/ args.base_url = <<>>)


\* C11: every result run_check returns, and so every result main collects,
\* that has skipped = TRUE has ok = FALSE and neither status code nor duration.
C11_SkippedResultShape ==
    /\ (Returned /\ res.skipped)
         => (~res.ok /\ res.status_code = NoneInt /\ res.duration_ms = NoneInt)
    /\ \A i \in 1..Len(results) :
         results[i].skipped
           => (~results[i].ok /\ results[i].status_code = NoneInt
               /\ results[i].duration_ms = NoneInt)

C11_Witness ==
    /\ script = "smoke" /\ pc = "reports" /\ Len(results) = 2
    /\ results[1].skipped /\ ~results[2].skipped /\ results[2].status_code = 503


\* ------------------------------------------------- build_url on its own
MaxUrlLen == 2
UrlChars == {"x", "y", "/"}
UrlStrings == UNION {[1..n -> UrlChars] : n \in 0..MaxUrlLen}

InitUrl ==
    /\ script = "build_url"
    /\ args \in [base_url : UrlStrings, path : UrlStrings]
    /\ pc = "url_call"
    /\ endpoints = <<>>
    /\ results = <<>>
    /\ idx = 0
    /\ url = <<>>
    /\ attempt = 0
    /\ delay = INITIAL_DELAY
    /\ wait = INITIAL_DELAY
    /\ last_error = NoMsg
    /\ status_code = NoneInt
    /\ duration_ms = NoneInt
    /\ res = NoResult
    /\ hc = [ok |-> FALSE, msg |-> NoMsg]
    /\ calls = 0
    /\ sleeps = <<>>
    /\ lastOutcome = NoOutcome
    /\ matched = FALSE
    /\ passed = FALSE
    /\ totalCalls = 0
    /\ reqAuth = {}
    /\ exitCode = NoneInt
    /\ exitVia = "running"
    /\ stderr = {}
    /\ jsonReport = NoReport
    /\ mdReport = NoReport
    /\ ci = NoWorkflow

\* Lines 61-66: one call of build_url(base_url, path).
BuildUrlCall ==
    /\ UNCHANGED ci
    /\ script = "build_url" /\ pc = "url_call"
    /\ IF BuildUrlRaises(args.base_url)
       THEN url' = url /\ exitVia' = "uncaught" /\ pc' = "url_raised"
       ELSE url' = build_url(args.base_url, args.path)
            /\ exitVia' = "return" /\ pc' = "url_done"
    /\ UNCHANGED <<mainVars, attempt, delay, last_error, status_code, duration_ms,
                   res, healthVars, histVars, exitCode, stderr, jsonReport, mdReport>>

NextUrl == BuildUrlCall

SpecUrl == InitUrl /\ [][NextUrl]_vars

\* The claim's b and p for the arguments given: the base without its one
\* trailing slash, the path without its one leading slash.
BaseStem == IF args.base_url # <<>> /\ args.base_url[Len(args.base_url)] = "/"
            THEN SubSeq(args.base_url, 1, Len(args.base_url) - 1)
            ELSE args.base_url
PathStem == IF args.path # <<>> /\ args.path[1] = "/"
            THEN SubSeq(args.path, 2, Len(args.path))
            ELSE args.path

\* C12: for a non-empty base b without trailing slash and a path p without
\* leading slash, build_url of b or b + "/" with p or "/" + p is b + "/" + p.
C12_UrlJoinSlashInvariant ==
    (script = "build_url" /\ pc # "url_call"
       /\ BaseStem # <<>> /\ BaseStem[Len(BaseStem)] # "/"
       /\ (PathStem = <<>> \/ PathStem[1] # "/"))
      => (pc = "url_done" /\ url = BaseStem \o <<"/">> \o PathStem)

C12_Witness ==
    /\ script = "build_url" /\ pc = "url_done"
    /\ args.base_url = <<"x", "/">> /\ args.path = <<"/", "y">>
    /\ url = <<"x", "/", "y">>


\* A line with a token that is neither an auth marker nor status=<integer>.
MalformedLine(l) ==
    \E i \in 1..Len(l.toks) : l.toks[i] \in {"bogus", "status=abc"}

MalformedFile ==
    /\ args.paths_file.given
    /\ \E i \in 1..Len(args.paths_file.lines) : MalformedLine(args.paths_file.lines[i])

NoEndpointGiven ==
    /\ args.paths = <<>>
    /\ \A i \in 1..Len(args.paths_file.lines) : args.paths_file.lines[i] = BlankLine

\* C13: with a malformed line in the paths file, or no endpoint at all, the
\* smoke runner makes no network call and produces no result at any time,
\* and it ends by returning 1 as a configuration error.
C13_ConfigErrorBeforeNetwork ==
    (script = "smoke" /\ (MalformedFile \/ NoEndpointGiven))
      => /\ totalCalls = 0
         /\ results = <<>>
         /\ endpoints = <<>>
         /\ pc \in {"start", "done"}
         /\ (pc = "done") => (exitCode = 1 /\ exitVia = "return"
                               /\ "configuration error" \in stderr)

C13_Witness ==
    /\ SmokeDone /\ exitCode = 1
    /\ args.paths_file = File(<<Line(PathA, <<"status=404">>), Line(PathA, <<"status=abc">>)>>)
    /\ args.paths = <<PathP>> /\ args.base_url # <<>> /\ args.retries = MaxRetries


\* C14: every request of either script carries Authorization: Bearer <token>
\* when the token is non-empty, and no Authorization header when the token
\* is absent or empty, whatever the endpoint's requires_auth is.
C14_BearerHeaderIffToken ==
    (script \in {"smoke", "health"})
      => /\ (totalCalls >= 1) => reqAuth # {}
         /\ (args.bearer_token \in {NoneTok, ""}) => reqAuth \subseteq {NoneTok}
         /\ (args.bearer_token \notin {NoneTok, ""}) => reqAuth \subseteq {args.bearer_token}

C14_Witness ==
    /\ script = "smoke" /\ pc = "reports" /\ totalCalls >= 3
    /\ reqAuth = {"tok"}
    /\ ~results[1].endpoint.requires_auth


AtMost(n) == IF n > 0 THEN n ELSE 0

CheckBounded ==
    (script \in {"smoke", "health"})
      => /\ attempt <= AtMost(args.retries)
         /\ calls <= AtMost(args.retries)
         /\ Len(sleeps) <= AtMost(args.retries - 1)

\* C15: a check never makes more than retries calls nor more than
\* retries - 1 sleeps, its attempt counter never exceeds retries, and
\* whatever the outcomes of its attempts a run_check that has left its retry
\* loop has returned a result.
C15_CheckTerminates ==
    /\ CheckBounded
    /\ (script = "smoke" /\ calls >= 1 /\ pc # "loop") => res # NoResult


\* The status a line states explicitly, NoneInt when it states none.
ExplicitStatus(l) ==
    IF \E i \in 1..Len(l.toks) : l.toks[i] = "status=404" THEN 404
    ELSE IF \E i \in 1..Len(l.toks) : l.toks[i] = "status=200" THEN 200
    ELSE NoneInt

\* C16: once loaded, the endpoint of a paths-file line with status=NNN is
\* checked against NNN whatever --expected-status is, and an endpoint
\* without a status token is checked against --expected-status.
C16_ExplicitStatusKept ==
    (script = "smoke" /\ endpoints # <<>> /\ args.paths_file.given
       /\ args.paths_file.lines[1] # BlankLine)
      => endpoints[1].expected_status =
           (IF ExplicitStatus(args.paths_file.lines[1]) # NoneInt
            THEN ExplicitStatus(args.paths_file.lines[1])
            ELSE args.expected_status)


\* C17: the result returned after exhausted retries carries the status of
\* the final attempt: the code that attempt received, none when it failed
\* at transport level.
C17_StatusOfFinalAttempt ==
    (Returned /\ ~res.skipped /\ ~res.ok /\ args.retries >= 1 /\ calls = args.retries)
      => res.status_code = lastOutcome.code

\* C18: a result that is not skipped, and a health check failure (exit 2),
\* come only after at least one network call, for every retries value.
C18_FailureNeedsAnAttempt ==
    /\ (Returned /\ ~res.skipped) => calls >= 1
    /\ (HealthDone /\ exitCode = 2) => calls >= 1


RowsLabelled(label) ==
    Cardinality({i \in 1..Len(mdReport.rows) : mdReport.rows[i].status = label})

\* C19: in a written Markdown report the passed, failed and skipped counts
\* add up to the total, the total is the number of results, and each count
\* is the number of table rows labelled PASS, FAIL and SKIPPED.
C19_MarkdownCountsPartition ==
    (script = "smoke" /\ mdReport.written)
      => /\ mdReport.total = Len(results)
         /\ Len(mdReport.rows) = mdReport.total
         /\ mdReport.passed + mdReport.failed + mdReport.skipped = mdReport.total
         /\ mdReport.passed = RowsLabelled("PASS")
         /\ mdReport.failed = RowsLabelled("FAIL")
         /\ mdReport.skipped = RowsLabelled("SKIPPED")

C19_Witness ==
    /\ script = "smoke" /\ mdReport.written
    /\ mdReport.total = 2 /\ mdReport.skipped = 1 /\ mdReport.failed = 1


\* ------------------------------- .github/workflows: the failure handler
\* One job per matrix environment and per triggering event; the jobs of a
\* scheduled and of a dispatched run are not serialised (the workflow sets
\* no concurrency group), so their steps interleave.
Envs == {"dev", "staging", "prod"}
Events == {"schedule", "workflow_dispatch"}
Jobs == Envs \X Events

JobEnv(j) == j[1]

InitCI ==
    /\ script = "workflow"
    /\ args = [environment |-> "all"]
    /\ pc = "jobs"
    /\ ci = [pc |-> [j \in Jobs |-> "health"],
             issues |-> [e \in Envs |-> 0],
             comments |-> [e \in Envs |-> 0]]
    /\ endpoints = <<>>
    /\ results = <<>>
    /\ idx = 0
    /\ url = <<>>
    /\ attempt = 0
    /\ delay = INITIAL_DELAY
    /\ wait = INITIAL_DELAY
    /\ last_error = NoMsg
    /\ status_code = NoneInt
    /\ duration_ms = NoneInt
    /\ res = NoResult
    /\ hc = [ok |-> FALSE, msg |-> NoMsg]
    /\ calls = 0
    /\ sleeps = <<>>
    /\ lastOutcome = NoOutcome
    /\ matched = FALSE
    /\ passed = FALSE
    /\ totalCalls = 0
    /\ reqAuth = {}
    /\ exitCode = NoneInt
    /\ exitVia = "running"
    /\ stderr = {}
    /\ jsonReport = NoReport
    /\ mdReport = NoReport

scriptVars == <<pc, mainVars, checkVars, healthVars, histVars, exitVars>>

\* Lines 122-140: the health step ends; the handler runs only on failure.
RunHealthStep(j) ==
    /\ script = "workflow" /\ ci.pc[j] = "health"
    /\ \E outcome \in {"success", "failure"} :
         ci' = [ci EXCEPT !.pc[j] = IF outcome = "failure" THEN "list" ELSE "done"]
    /\ UNCHANGED scriptVars

\* Lines 156-163: list the open issues labelled health-check and look for
\* one with this environment's title.
ListIssues(j) ==
    /\ script = "workflow" /\ ci.pc[j] = "list"
    /\ ci' = [ci EXCEPT !.pc[j] = IF ci.issues[JobEnv(j)] > 0 THEN "existing"
                                  ELSE "missing"]
    /\ UNCHANGED scriptVars

\* Lines 164-170: comment on the issue found.
CreateComment(j) ==
    /\ script = "workflow" /\ ci.pc[j] = "existing"
    /\ ci' = [ci EXCEPT !.pc[j] = "done",
                        !.comments[JobEnv(j)] = ci.comments[JobEnv(j)] + 1]
    /\ UNCHANGED scriptVars

\* Lines 171-179: create the issue.
CreateIssue(j) ==
    /\ script = "workflow" /\ ci.pc[j] = "missing"
    /\ ci' = [ci EXCEPT !.pc[j] = "done",
                        !.issues[JobEnv(j)] = ci.issues[JobEnv(j)] + 1]
    /\ UNCHANGED scriptVars

NextCI ==
    \/ \E j \in Jobs : RunHealthStep(j)
    \/ \E j \in Jobs : ListIssues(j)
    \/ \E j \in Jobs : CreateComment(j)
    \/ \E j \in Jobs : CreateIssue(j)

SpecCI == InitCI /\ [][NextCI]_vars

\* C20: whatever the number and interleaving of failed runs, an environment
\* never has more than one open issue titled for it.
C20_NoDuplicateIssue ==
    (script = "workflow") => \A e \in Envs : ci.issues[e] <= 1

====
